---------------------------- MODULE Spec2Model ----------------------------
(***************************************************************************)
(* A model of bin/error.js (custom-error-instance): the CustomError        *)
(* factory of error types, its argument classifier findArg, the            *)
(* constructor `construct` every error type gets, and rootFactory, the     *)
(* stack-capturing initializer of root error types.                        *)
(*                                                                         *)
(* A JavaScript string is modelled as the sequence of its lines (a Text):  *)
(* 'a\nb' is <<"a", "b">>, '' is <<"">>.  `undefined` is the empty         *)
(* sequence.  Joining an array of strings with '\n' is then the            *)
(* concatenation of their line sequences, and split('\n') cuts a string    *)
(* into its one-line strings.                                              *)
(***************************************************************************)
EXTENDS Integers, Sequences, FiniteSets, TLC

VARIABLES
    types,   \* the error types defined so far: types[i] is construct_i.prototype.CustomError
    call,    \* the most recent call of CustomError: its arguments and its outcome
    limit,   \* Error.stackTraceLimit, the process-wide stack capture depth
    pc,      \* where the construction of the current instance stands
    inst     \* the current instance and the locals of its construct/rootFactory calls

vars == <<types, call, limit, pc, inst>>

-----------------------------------------------------------------------------
(* Bounds of the model *)

\* how many error types exist at most, the two of the module itself included
MaxTypes == 3

\* how many frames the code that constructs an instance has on the call stack
CallerDepth == 2

\* Error.stackTraceLimit when the module is loaded
AmbientLimit == 2

-----------------------------------------------------------------------------
(* Strings *)

Undefined == <<>>

Str(s) == <<s>>

\* a + b on strings
Cat(a, b) == SubSeq(a, 1, Len(a) - 1) \o <<a[Len(a)] \o b[1]>> \o Tail(b)

\* `if (v)` on a string or undefined: '' and undefined are falsy
Truthy(v) == v /= Undefined /\ v /= Str("")

\* v || d
OrElse(v, d) == IF Truthy(v) THEN v ELSE d

RECURSIVE Join(_)
\* array.join('\n')
Join(arr) == IF arr = <<>> THEN Str("") ELSE
             IF Len(arr) = 1 THEN arr[1] ELSE arr[1] \o Join(Tail(arr))

\* string.split('\n')
Split(text) == [i \in 1..Len(text) |-> Str(text[i])]

\* an object without own properties
EmptyObject == <<>>

\* Object.keys(o)
Keys(o) == DOMAIN o

\* Object.assign({}, a, b) for two objects
Assign(a, b) == [k \in Keys(a) \cup Keys(b) |-> IF k \in Keys(b) THEN b[k] ELSE a[k]]

-----------------------------------------------------------------------------
(* The values CustomError is called with *)

\* the strings, objects and functions of the program; the first name and the
\* first object are those of the module's own two calls of CustomError
NamePool == <<Str("CustomError"), Str("NotFoundError")>>

PropsPool == << [message |-> Str("Arguments out of order."), code |-> Str("EOARG")],
                [x |-> Str("1"), y |-> Str("1")],
                [y |-> Str("2"), code |-> Str("E404")] >>

FactoryPool == <<"f1">>

V(k, id) == [k |-> k, id |-> id]

ErrorV == V("Error", 0)
UndefinedV == V("undefined", 0)

\* every value an argument can be, given the error types defined so far
ArgValues(tys) ==
    {V("string", i) : i \in 2..Len(NamePool)}
    \cup {ErrorV, UndefinedV, V("null", 0), V("arrow", 0)}
    \cup {V("type", i) : i \in 1..Len(tys)}
    \cup {V("object", i) : i \in 2..Len(PropsPool)}
    \cup {V("function", i) : i \in 1..Len(FactoryPool)}

\* typeof value
TypeOf(v) ==
    CASE v.k = "string" -> "string"
      [] v.k = "undefined" -> "undefined"
      [] v.k \in {"null", "object"} -> "object"
      [] OTHER -> "function"

\* an arrow function, a bound function or a method has no prototype property
HasPrototype(v) == v.k \in {"Error", "type", "function"}

-----------------------------------------------------------------------------
(* The predicates of the classifier: "T", "F", or "X" when evaluating it   *)
(* throws a TypeError (value.prototype is undefined)                       *)

isFactoryArg(v) ==
    IF TypeOf(v) /= "function" THEN "F"
    ELSE IF v = ErrorV THEN "F"
    ELSE IF ~HasPrototype(v) THEN "X"
    ELSE IF v.k = "type" THEN "F" ELSE "T"

isNameArg(v) == IF TypeOf(v) = "string" THEN "T" ELSE "F"

isParentArg(v) ==
    IF TypeOf(v) /= "function" THEN "F"
    ELSE IF v = ErrorV THEN "T"
    ELSE IF ~HasPrototype(v) THEN "X"
    ELSE IF v.k = "type" THEN "T" ELSE "F"

isPropertiesArg(v) ==
    IF v.k \notin {"undefined", "null"} /\ TypeOf(v) = "object" THEN "T" ELSE "F"

Test(filter, v) ==
    CASE filter = "isFactoryArg" -> isFactoryArg(v)
      [] filter = "isNameArg" -> isNameArg(v)
      [] filter = "isParentArg" -> isParentArg(v)
      [] filter = "isPropertiesArg" -> isPropertiesArg(v)

\* args[i], 0-based as in the source
At(args, i) == IF i < Len(args) THEN args[i + 1] ELSE UndefinedV

\* the loop ending one position early: `i < len` for `i <= len`
ScanEndExclusive(args, index) == (IF index < Len(args) THEN index ELSE Len(args)) - 1

\* len of findArg, the last position its loop looks at
ScanEnd(args, index) == IF index < Len(args) THEN index ELSE Len(args)

RECURSIVE Scan(_, _, _, _, _, _, _)
\* the loop of findArg from position i on
Scan(args, len, filter, antiFilters, i, anti, found) ==
    IF i > len THEN [anti |-> anti, found |-> found, threw |-> FALSE]
    ELSE
      LET val == At(args, i)
          antiRes == IF anti = -1
                     THEN {Test(antiFilters[j], val) : j \in 1..Len(antiFilters)}
                     ELSE {}
          anti2 == IF "T" \in antiRes THEN i ELSE anti
          tryFilter == found = -1
          filterRes == IF tryFilter THEN Test(filter, val) ELSE "F"
          found2 == IF filterRes = "T" THEN i ELSE found
      IN IF "X" \in antiRes \/ filterRes = "X"
         THEN [anti |-> anti2, found |-> found, threw |-> TRUE]
         ELSE Scan(args, len, filter, antiFilters, i + 1, anti2, found2)

\* findArg: [status |-> "ok", value] | [status |-> "order"] | [status |-> "type"]
findArg(args, index, defaultValue, filter, antiFilters) ==
    LET r == Scan(args, ScanEnd(args, index), filter, antiFilters, 0, -1, -1)
    IN IF r.threw THEN [status |-> "type", value |-> UndefinedV]
       ELSE IF r.found /= -1 /\ r.anti /= -1 /\ r.anti < r.found
            THEN [status |-> "order", value |-> UndefinedV]
       ELSE [status |-> "ok",
             value |-> IF r.found /= -1 THEN At(args, r.found) ELSE defaultValue]

-----------------------------------------------------------------------------
(* construct: the properties of an instance *)

Reverse(s) == [i \in 1..Len(s) |-> s[Len(s) + 1 - i]]

RECURSIVE AssignAll(_)
\* Object.assign.apply(Object, ar): later sources overwrite earlier ones
AssignAll(ar) == IF ar = <<>> THEN EmptyObject
                 ELSE Assign(AssignAll(SubSeq(ar, 1, Len(ar) - 1)), ar[Len(ar)])

\* the chain folded in as it stands, leaf first
MergeOrderLeafFirst(chain) == chain

\* line 54: the order in which the chain's default properties are folded in
MergeOrder(chain) == Reverse(chain)

\* props of construct, for an instance of type t and the message object m
MergeProperties(tys, t, m) ==
    LET order == MergeOrder(tys[t].chain)
        ar == <<EmptyObject>> \o [i \in 1..Len(order) |-> tys[order[i]].properties] \o <<m>>
    IN AssignAll(ar)

-----------------------------------------------------------------------------
(* CustomError *)

\* what an argument value stands for; id 0 is the default findArg was given
ParentOf(v) == IF v.k = "type" THEN v.id ELSE 0

PropertiesOf(v) == IF v.id = 0 THEN EmptyObject ELSE PropsPool[v.id]

FactoryOf(v) == IF v.id = 0 THEN "noop" ELSE FactoryPool[v.id]

DefaultName(tys, parent) == IF parent = 0 THEN Str("Error") ELSE tys[parent].name

NameOf(tys, v, parent) == IF v.id = 0 THEN DefaultName(tys, parent) ELSE NamePool[v.id]

\* lines 27-28: the factory a new type gets
InstalledFactory(parent, factory) ==
    IF parent = 0 /\ factory = "noop" THEN "rootFactory" ELSE factory

\* the chain without the parent's
NewChainAlone(tys, self, parent) == <<self>>

\* lines 76-83: the chain of a new descriptor, self, under parent

NewChain(tys, self, parent) ==
    IF parent = 0 THEN <<self>> ELSE <<self>> \o tys[parent].chain

\* CustomError(args...) with the types tys defined: the descriptor of the new
\* type, or what is thrown.  proto is the type whose prototype the new
\* type's prototype is created from (line 69); 0 stands for Error.
CustomError(tys, args) ==
    LET p == findArg(args, 1, ErrorV, "isParentArg", <<"isPropertiesArg", "isFactoryArg">>)
        o == findArg(args, 2, V("object", 0), "isPropertiesArg", <<"isFactoryArg">>)
        f == findArg(args, 3, V("function", 0), "isFactoryArg", <<>>)
        n == findArg(args, 0, V("string", 0), "isNameArg",
                     <<"isParentArg", "isPropertiesArg", "isFactoryArg">>)
        first == IF p.status /= "ok" THEN p.status
                 ELSE IF o.status /= "ok" THEN o.status
                 ELSE IF f.status /= "ok" THEN f.status
                 ELSE n.status
        parent == ParentOf(p.value)
        self == Len(tys) + 1
    IN IF first /= "ok" THEN [status |-> first, desc |-> <<>>]
       ELSE [status |-> "ok",
             desc |-> [name |-> NameOf(tys, n.value, parent),
                       parent |-> parent,
                       proto |-> parent,
                       properties |-> PropertiesOf(o.value),
                       factory |-> InstalledFactory(parent, FactoryOf(f.value)),
                       chain |-> NewChain(tys, self, parent)]]

\* var Err = CustomError('CustomError')
Err == CustomError(<<>>, <<V("string", 1)>>).desc

\* Err.order = CustomError(Err, { message: 'Arguments out of order.', code: 'EOARG' })
ErrOrder == CustomError(<<Err>>, <<V("type", 1), V("object", 1)>>).desc

NoCall == [args |-> <<>>, outcome |-> "none", type |-> 0, thrown |-> 0, code |-> Undefined]

NoInst == <<>>

Init ==
    /\ types = <<Err, ErrOrder>>
    /\ call = NoCall
    /\ limit = AmbientLimit
    /\ pc = "idle"
    /\ inst = NoInst

\* what `throw new Err.order()` throws: an instance of types[2]
ThrownCall(tys, args) ==
    LET props == MergeProperties(tys, 2, EmptyObject)
    IN [args |-> args, outcome |-> "throw", type |-> 0, thrown |-> 2,
        code |-> IF "code" \in Keys(props) THEN props["code"] ELSE Undefined]

\* a call CustomError(args...)
Define(args) ==
    /\ pc \in {"idle", "done"}
    /\ Len(types) < MaxTypes
    /\ LET r == CustomError(types, args)
       IN IF r.status = "ok"
          THEN /\ types' = Append(types, r.desc)
               /\ call' = [args |-> args, outcome |-> "return", type |-> Len(types) + 1,
                           thrown |-> 0, code |-> Undefined]
          ELSE /\ types' = types
               /\ call' = IF r.status = "order" THEN ThrownCall(types, args)
                          ELSE [args |-> args, outcome |-> "throw", type |-> 0,
                                thrown |-> 0, code |-> Str("TypeError")]
    /\ UNCHANGED <<limit, pc, inst>>

\* the parameters CustomError declares
NumParams == 4

\* the lists of at most n values of S
Lists(S, n) == UNION {[1..m -> S] : m \in 0..n}

\* SpecArgs: the first call of CustomError after the module is loaded, with
\* any list of 0 to 4 arguments
DefineAny ==
    /\ call = NoCall
    /\ \E args \in Lists(ArgValues(types), NumParams) : Define(args)

NextArgs == DefineAny

SpecArgs == Init /\ [][NextArgs]_vars

-----------------------------------------------------------------------------
(* Instances: construct(message, configuration) *)

\* the message arguments: omitted, a string, an object
MessageStrings == <<Str("missing")>>

MessageObjects == << [y |-> Str("4"), z |-> Str("9"), code |-> Str("")] >>

MessageValues ==
    {V("undefined", 0)}
    \cup {V("string", i) : i \in 1..Len(MessageStrings)}
    \cup {V("object", i) : i \in 1..Len(MessageObjects)}

\* the configuration arguments: omitted, { stackLength: 1 }, { stackLength: -1 }
Cfg(k, n) == [k |-> k, stackLength |-> n]

ConfigValues == {Cfg("undefined", 0), Cfg("object", 1), Cfg("object", -1)}

\* the values written to instance.code and instance.message
CodeValues == {Undefined, Str("E500")}

WrittenMessages == {Str("boom"), <<"two", "lines">>}

\* lines 50-51: the message as an object
MessageObject(m) ==
    IF m.k = "string" THEN [message |-> MessageStrings[m.id]]
    ELSE IF m.k = "object" THEN MessageObjects[m.id]
    ELSE EmptyObject

\* the frames of the code that constructs the instance, innermost first
Caller(depth) == [i \in 1..depth |-> "    at caller" \o ToString(i)]

\* the frames of construct: a plain call re-enters construct with new
ConstructFrames(mode) ==
    IF mode = "plain" THEN <<"    at new construct", "    at construct">>
    ELSE <<"    at new construct">>

\* this.code and this.message: the accessors of rootFactory, or else an own
\* data property, or else Error.prototype's (no code, message '')
ReadCode(in) ==
    IF in.accessors THEN in.code
    ELSE IF "code" \in Keys(in.own) THEN in.own["code"] ELSE Undefined

ReadMessage(in) ==
    IF in.accessors THEN in.messageStr
    ELSE IF "message" \in Keys(in.own) THEN in.own["message"] ELSE Str("")

\* the name taken from the leaf
NameSourceLeaf(chain) == chain[1]

\* line 87: the descriptor toString takes the name from
NameSource(chain) == chain[Len(chain)]

\* construct.prototype.toString
toString(tys, in) ==
    LET r0 == tys[NameSource(tys[in.type].chain)].name
        r1 == IF Truthy(ReadCode(in)) THEN Cat(Cat(r0, Str(" ")), ReadCode(in)) ELSE r0
    IN IF Truthy(ReadMessage(in)) THEN Cat(Cat(r1, Str(": ")), ReadMessage(in)) ELSE r1

\* updateStack without the new header
updateStackStale(tys, in) == [in EXCEPT !.stackProp = Join(in.stack)]

\* updateStack of rootFactory
updateStack(tys, in) ==
    LET st == [in.stack EXCEPT ![1] = toString(tys, in)]
    IN [in EXCEPT !.stack = st, !.stackProp = Join(st)]

\* lines 144-154: config.stackLength
StackLength(configuration, lim) ==
    IF configuration.k = "object" /\ configuration.stackLength >= 0
    THEN configuration.stackLength ELSE lim

\* lines 157-168: the properties copied onto the instance
CopiedProperties(props) == [k \in Keys(props) \ {"code", "message"} |-> props[k]]

Min(a, b) == IF a < b THEN a ELSE b

\* (new Error()).stack with the frames given on the call stack
ErrorStack(frames, lim) == <<"Error">> \o SubSeq(frames, 1, Min(lim, Len(frames)))

\* how many leading lines rootFactory drops from the captured stack
Spliced == 3

\* lines 172-174: split, splice(0, 3), unshift('')
CapturedStack(frames, lim) ==
    LET lines == Split(ErrorStack(frames, lim))
    IN <<Str("")>> \o SubSeq(lines, Spliced + 1, Len(lines))

\* the loop of construct started at the leaf
FirstIndexLeaf(chain) == 1

\* lines 60: i = chain.length - 1, the root's place in the chain
FirstIndex(chain) == Len(chain)

\* construct(message, configuration), called with new or plainly: lines 31-57.
\* The model follows one instance: constructing another one later would start
\* from the same types and the same limit and replace inst, so that it reaches
\* no state that constructing it first does not reach.
Construct(t, m, c, mode, depth) ==
    /\ pc = "idle"
    /\ t \in 1..Len(types)
    /\ inst' = [type |-> t, mode |-> mode, message |-> m, configuration |-> c,
                caller |-> Caller(depth), frames |-> ConstructFrames(mode) \o Caller(depth),
                limitAtEntry |-> limit,
                props |-> MergeProperties(types, t, MessageObject(m)),
                i |-> FirstIndex(types[t].chain), log |-> <<>>,
                own |-> EmptyObject, code |-> Undefined, messageStr |-> Str(""),
                accessors |-> FALSE, stack |-> <<>>, stackProp |-> Undefined,
                captured |-> <<>>,
                originalStackLength |-> 0]
    /\ pc' = "factories"
    /\ UNCHANGED <<types, call, limit>>

\* the descriptor the loop of construct is at
Item == types[types[inst.type].chain[inst.i]]

\* the loop variable after one more factory: i--
NextI(i) == i - 1

Logged(in) == Append(in.log, [desc |-> types[in.type].chain[in.i], props |-> in.props,
                              configuration |-> in.configuration])

\* lines 60-65 with a factory of the user's, or the no-op, which is skipped
CallFactory ==
    /\ pc = "factories"
    /\ inst.i \in 1..Len(types[inst.type].chain)
    /\ Item.factory /= "rootFactory"
    /\ inst' = [inst EXCEPT !.i = NextI(inst.i),
                            !.log = IF Item.factory = "noop" THEN inst.log ELSE Logged(inst)]
    /\ UNCHANGED <<types, call, limit, pc>>

\* rootFactory, lines 142-171: the configuration, the properties, the widening
RootFactoryEnter ==
    /\ pc = "factories"
    /\ inst.i \in 1..Len(types[inst.type].chain)
    /\ Item.factory = "rootFactory"
    /\ inst' = [inst EXCEPT
            !.log = Logged(inst),
            !.originalStackLength = limit,
            !.own = CopiedProperties(inst.props),
            !.code = IF "code" \in Keys(inst.props)
                     THEN OrElse(inst.props["code"], Undefined) ELSE Undefined,
            !.messageStr = IF "message" \in Keys(inst.props)
                           THEN OrElse(inst.props["message"], Str("")) ELSE Str("")]
    /\ limit' = StackLength(inst.configuration, limit) + 2
    /\ pc' = "capture"
    /\ UNCHANGED <<types, call>>

\* rootFactory, lines 172-174: the capture, which throws when the stack of the
\* new Error is no string (Error.prepareStackTrace) and nothing catches it
RootFactoryCapture ==
    /\ pc = "capture"
    /\ \E raises \in BOOLEAN :
        IF raises
        THEN /\ pc' = "thrown"
             /\ UNCHANGED inst
        ELSE /\ pc' = "restore"
             /\ LET st == CapturedStack(<<"    at rootFactory">> \o inst.frames, limit)
                IN inst' = [inst EXCEPT !.stack = st, !.captured = st]
    /\ UNCHANGED <<types, call, limit>>

\* rootFactory, lines 175-203: the restoring, the accessors, updateStack
RootFactoryFinish ==
    /\ pc = "restore"
    /\ limit' = inst.originalStackLength
    /\ inst' = updateStack(types, [inst EXCEPT !.accessors = TRUE, !.i = NextI(inst.i)])
    /\ pc' = "factories"
    /\ UNCHANGED <<types, call>>

\* the loop of construct is over: the instance is returned
Return ==
    /\ pc = "factories"
    /\ inst.i = 0
    /\ pc' = "done"
    /\ UNCHANGED <<types, call, limit, inst>>

\* instance.code = value: the setter of lines 184-187, or a plain write
SetCode(value) ==
    /\ pc = "done"
    /\ inst' = IF inst.accessors THEN updateStack(types, [inst EXCEPT !.code = value])
               ELSE [inst EXCEPT !.own = Assign(inst.own, [code |-> value])]
    /\ UNCHANGED <<types, call, limit, pc>>

\* instance.message = value: the setter of lines 196-199, or a plain write
SetMessage(value) ==
    /\ pc = "done"
    /\ inst' = IF inst.accessors THEN updateStack(types, [inst EXCEPT !.messageStr = value])
               ELSE [inst EXCEPT !.own = Assign(inst.own, [message |-> value])]
    /\ UNCHANGED <<types, call, limit, pc>>

\* the calls of CustomError the instances are built on: (), (name),
\* (name, properties) and (properties, factory), each with or without a parent
DefineInputs(tys) ==
    {nr[1] \o p \o nr[2] :
        nr \in {<< <<>>, <<>> >>,
                << <<V("string", 2)>>, <<>> >>,
                << <<V("string", 2)>>, <<V("object", 2)>> >>,
                << <<>>, <<V("object", 3), V("function", 1)>> >>},
        p \in {<<>>} \cup {<<V("type", i)>> : i \in 1..Len(tys)}}

DefineType == \E args \in DefineInputs(types) : Define(args)

NewInstance ==
    \E t \in 1..Len(types), m \in MessageValues, c \in ConfigValues,
       mode \in {"new", "plain"} :
        Construct(t, m, c, mode, CallerDepth)

WriteCode == \E value \in CodeValues : SetCode(value)

WriteMessage == \E value \in WrittenMessages : SetMessage(value)

Next ==
    \/ DefineType
    \/ NewInstance
    \/ CallFactory
    \/ RootFactoryEnter
    \/ RootFactoryCapture
    \/ RootFactoryFinish
    \/ Return
    \/ WriteCode
    \/ WriteMessage

Spec == Init /\ [][Next]_vars

-----------------------------------------------------------------------------
(* Claims about the classification of the arguments (SpecArgs) *)

\* the canonical slot a value is typed for: name 0, parent 1, properties 2,
\* factory 3; -1 for a value typed for no slot
Slot(v) ==
    CASE v.k = "string" -> 0
      [] v.k \in {"Error", "type"} -> 1
      [] v.k = "object" -> 2
      [] v.k = "function" -> 3
      [] OTHER -> -1

AllTyped(args) == \A i \in 1..Len(args) : Slot(args[i]) >= 0

\* a subset of {name, parent, properties, factory} in canonical order
IsCanonical(args) ==
    /\ AllTyped(args)
    /\ \A i, j \in 1..Len(args) : i < j => Slot(args[i]) < Slot(args[j])

\* a value typed for a later slot stands before a value typed for an earlier one
IsOutOfOrder(args) ==
    /\ AllTyped(args)
    /\ \E i, j \in 1..Len(args) : i < j /\ Slot(args[i]) > Slot(args[j])

Supplied(args, slot) == {args[i] : i \in {j \in 1..Len(args) : Slot(args[j]) = slot}}

Applied == call.outcome \in {"return", "throw"}

\* C1: a call with a subset of (name, parent, properties, factory) in canonical
\* order returns a type whose name, parent, properties and factory are the
\* values supplied, and the documented default for each slot left out.
C1_CanonicalArgumentsResolve ==
    (Applied /\ IsCanonical(call.args)) =>
        /\ call.outcome = "return"
        /\ LET d == types[call.type]
               a == call.args
           IN /\ d.parent = (IF Supplied(a, 1) = {} THEN 0
                             ELSE IF Supplied(a, 1) = {ErrorV} THEN 0
                             ELSE (CHOOSE v \in Supplied(a, 1) : TRUE).id)
              /\ d.properties = (IF Supplied(a, 2) = {} THEN EmptyObject
                                 ELSE PropsPool[(CHOOSE v \in Supplied(a, 2) : TRUE).id])
              /\ d.factory = (IF Supplied(a, 3) /= {}
                              THEN FactoryPool[(CHOOSE v \in Supplied(a, 3) : TRUE).id]
                              ELSE IF d.parent = 0 THEN "rootFactory" ELSE "noop")
              /\ d.name = (IF Supplied(a, 0) /= {}
                           THEN NamePool[(CHOOSE v \in Supplied(a, 0) : TRUE).id]
                           ELSE IF d.parent = 0 THEN Str("Error") ELSE types[d.parent].name)

\* all four arguments supplied, the parent a built type, and a type returned
C1_Witness ==
    /\ call.outcome = "return"
    /\ Len(call.args) = 4
    /\ IsCanonical(call.args)
    /\ call.args[2].k = "type"

\* C2: a call in which a value typed for a later slot stands before a value
\* typed for an earlier slot throws the ArgumentOrderError, code EOARG.
C2_OutOfOrderThrows ==
    (Applied /\ IsOutOfOrder(call.args)) =>
        /\ call.outcome = "throw"
        /\ call.thrown = 2
        /\ call.code = Str("EOARG")

\* C9: whatever the 0 to 4 arguments are, CustomError returns a constructor
\* or throws the ArgumentOrderError, and no construction of an instance throws.
C9_OnlyArgumentOrderError ==
    /\ call.outcome = "throw" => call.thrown = 2
    /\ pc /= "thrown"

-----------------------------------------------------------------------------
(* Claims about the types and their instances (Spec) *)

RECURSIVE Lineage(_, _)
\* the type t and its ancestors, found by following the parents
Lineage(tys, t) == IF t = 0 THEN <<>> ELSE <<t>> \o Lineage(tys, tys[t].parent)

RECURSIVE Prototypes(_, _)
\* the types an instance of t is instanceof; 0 is Error
Prototypes(tys, t) == IF t = 0 THEN {0} ELSE {t} \cup Prototypes(tys, tys[t].proto)

Elements(seq) == {seq[i] : i \in 1..Len(seq)}

\* the value of key k as the claim states it: the message's, else that of the
\* nearest descriptor from the leaf up that defines it
ClaimedValue(tys, t, m, k) ==
    IF k \in Keys(m) THEN m[k]
    ELSE LET line == Lineage(tys, t)
             j == CHOOSE j \in 1..Len(line) :
                    /\ k \in Keys(tys[line[j]].properties)
                    /\ \A h \in 1..(j - 1) : k \notin Keys(tys[line[h]].properties)
         IN tys[line[j]].properties[k]

ClaimedProperties(tys, t, m) ==
    LET line == Lineage(tys, t)
        keys == Keys(m) \cup UNION {Keys(tys[line[j]].properties) : j \in 1..Len(line)}
    IN [k \in keys |-> ClaimedValue(tys, t, m, k)]

Constructing == pc /= "idle"

\* the message as the claim reads it: a string s as {message: s}, an omitted
\* message as {}
ClaimedMessage(m) ==
    CASE m.k = "string" -> [message |-> MessageStrings[m.id]]
      [] m.k = "object" -> MessageObjects[m.id]
      [] OTHER -> EmptyObject

\* C3: the merged properties hold, for each key, the message's value if the
\* message defines the key, else the value of the descriptor nearest the leaf
\* that defines it, and no other key.
C3_MergedProperties ==
    Constructing =>
        inst.props = ClaimedProperties(types, inst.type, ClaimedMessage(inst.message))

\* an instance of a type three deep, whose own default y the message overrides
C3_Witness ==
    /\ pc = "done"
    /\ Len(types[inst.type].chain) = 3
    /\ inst.message.k = "object"
    /\ "y" \in Keys(types[inst.type].properties)
    /\ inst.props["y"] = Str("4")
    /\ inst.props["message"] = Str("Arguments out of order.")

RECURSIVE ClaimedLog(_, _, _)
\* the calls of the factories as the claim states them, for the descriptors
\* line (root first): each factory that is not the no-op once, with the merged
\* properties and the configuration as given
ClaimedLog(tys, in, line) ==
    IF line = <<>> THEN <<>>
    ELSE (IF tys[Head(line)].factory = "noop" THEN <<>>
          ELSE << [desc |-> Head(line),
                   props |-> ClaimedProperties(tys, in.type, ClaimedMessage(in.message)),
                   configuration |-> in.configuration] >>)
         \o ClaimedLog(tys, in, Tail(line))

IsPrefix(a, b) == Len(a) <= Len(b) /\ a = SubSeq(b, 1, Len(a))

\* C4: the factories of the chain are called root first and leaf last, each
\* that is not the no-op exactly once, with the merged properties and the raw
\* configuration, and no other factory is called.
C4_InitializerOrder ==
    Constructing =>
        LET claimed == ClaimedLog(types, inst, Reverse(Lineage(types, inst.type)))
        IN /\ IsPrefix(inst.log, claimed)
           /\ pc = "done" => inst.log = claimed

\* a chain of three whose root and leaf have a factory and whose middle has none
C4_Witness ==
    /\ pc = "done"
    /\ Len(types[inst.type].chain) = 3
    /\ Len(inst.log) = 2
    /\ inst.log[1].desc = 1
    /\ inst.log[2].desc = inst.type

Present(v) == Truthy(v)

\* C5: toString() is the name of the root of the chain, then a space and the
\* code if there is one, then ': ' and the message if there is one.
C5_ToStringRootName ==
    pc = "done" =>
        LET line == Lineage(types, inst.type)
            root == types[line[Len(line)]].name
            code == ReadCode(inst)
            message == ReadMessage(inst)
            tail == IF Present(message) THEN Cat(Str(": "), message) ELSE Str("")
            middle == IF Present(code) THEN Cat(Str(" "), code) ELSE Str("")
        IN toString(types, inst) = Cat(root, Cat(middle, tail))

\* an instance of a type named NotFoundError under the root CustomError
C5_Witness ==
    /\ pc = "done"
    /\ types[inst.type].name = Str("NotFoundError")
    /\ toString(types, inst) = Str("CustomError E500: missing")

\* an instance rootFactory has initialized, returned by its constructor
RootInitialized == pc = "done" /\ inst.accessors

\* the lines after the first of the stack rootFactory kept at the construction
CapturedLines == [i \in 1..(Len(inst.captured) - 1) |-> inst.captured[i + 1][1]]

\* C6 as stated: after the construction and after any writes of code and
\* message, the first line of the stack is toString() and the lines after it
\* are those captured at the construction.
C6_StackHeaderIsToString ==
    RootInitialized =>
        /\ Str(Head(inst.stackProp)) = toString(types, inst)
        /\ Tail(inst.stackProp) = CapturedLines

\* C6 as amended: the stack is toString() followed by the lines captured at
\* the construction; its first line is toString(), and the lines after the
\* first are the captured ones, whenever code and message hold no line break.
C6_StackIsToStringThenCaptured ==
    RootInitialized =>
        /\ inst.stack[1] = toString(types, inst)
        /\ Tail(inst.stack) = Tail(inst.captured)
        /\ inst.stackProp = toString(types, inst) \o CapturedLines
        /\ Len(toString(types, inst)) = 1 =>
              /\ Str(Head(inst.stackProp)) = toString(types, inst)
              /\ Tail(inst.stackProp) = CapturedLines

\* the code E500 and the message boom written to an instance with a stack
C6_Witness ==
    /\ RootInitialized
    /\ Len(inst.captured) > 1
    /\ ReadCode(inst) = Str("E500")
    /\ ReadMessage(inst) = Str("boom")
    /\ Head(inst.stackProp) = "CustomError E500: boom"

OtherMode(mode) == IF mode = "plain" THEN "new" ELSE "plain"

\* C7: a plain call and a construction with new, from the same caller with
\* the same arguments, give the same stack lines after the header, and these
\* are frames of the caller only.
C7_PlainCallEquivalent ==
    RootInitialized =>
        LET length == StackLength(inst.configuration, inst.limitAtEntry)
            other == CapturedStack(<<"    at rootFactory">> \o ConstructFrames(OtherMode(inst.mode))
                                       \o inst.caller, length + 2)
        IN /\ Tail(inst.stack) = Tail(other)
           /\ Elements(Tail(inst.stack)) \subseteq {Str(f) : f \in Elements(inst.caller)}

\* C8: every chain is the descriptor itself, then its parent's chain, and ends
\* at the only descriptor of the chain whose parent is Error; an instance is
\* instanceof every type of its chain and of Error; and defining a type
\* leaves the types defined before as they are.
C8_ChainState ==
    \A t \in 1..Len(types) :
        LET d == types[t]
            ch == d.chain
        IN /\ Head(ch) = t
           /\ Tail(ch) = (IF d.parent = 0 THEN <<>> ELSE types[d.parent].chain)
           /\ ch = Lineage(types, t)
           /\ \A j \in 1..Len(ch) : types[ch[j]].parent = 0 <=> j = Len(ch)
           /\ Elements(ch) \cup {0} \subseteq Prototypes(types, t)

C8_Chains ==
    /\ []C8_ChainState
    /\ [][\A t \in 1..Len(types) : Len(types') >= t /\ types'[t] = types[t]]_vars

\* a type under Err.order under Err
C8_Witness ==
    /\ Len(types) = 3
    /\ types[3].chain = <<3, 2, 1>>

\* C10: after a construction, whether the capture completed or threw,
\* Error.stackTraceLimit is what it was before; it is another value only
\* during the capture.
C10_LimitRestored ==
    Constructing =>
        /\ pc \in {"done", "thrown"} => limit = inst.limitAtEntry
        /\ limit /= inst.limitAtEntry => pc \in {"capture", "restore"}
        /\ pc \in {"capture", "restore"} =>
              limit = StackLength(inst.configuration, inst.limitAtEntry) + 2

=============================================================================
